---- MODULE Spec2Model ----
(***************************************************************************)
(* Model of the Bedrock analysis Lambda of the school-monitoring           *)
(* repository (src/refrences/bedrock_lambda_function.py): one invocation   *)
(* of lambda_handler, from the event to the returned response, with the    *)
(* database, the Bedrock runtime and S3 as stubbed collaborators.          *)
(***************************************************************************)
EXTENDS Integers, Sequences, FiniteSets, TLC

(* ------------------------------ bounds -------------------------------- *)
\* longest result set a query returns in the model (the at-risk query has LIMIT 20)
MaxRows == 2
\* most transient failures the Bedrock stub produces before its final outcome
MaxTransientFails == 3
\* last clock value datetime.now() can return in the model
MaxNow == 3
\* clock ticks per second: strftime('%Y%m%d_%H%M%S') drops what is below a second
TicksPerSecond == 2

(* ------------------------- values and inputs -------------------------- *)
\* Python's None, for the values that are records when they are present
None == [none |-> TRUE]

\* keys of the prompts dictionary of create_bedrock_prompt
PromptKeys == {"comprehensive", "at_risk", "quick_summary", "at_risk_students", "predictive"}
\* analysis_type values an event can carry: the registered ones and two that are not
AnalysisTypes == PromptKeys \cup {"district_performance", "weekly_digest"}
\* keys of the models dictionary of lambda_handler
ModelKeys == {"sonnet", "haiku", "claude-2"}
\* model values an event can carry
ModelChoices == ModelKeys \cup {"opus"}

\* a result row: rows whose KPI columns came back as float, and a row with a
\* decimal.Decimal column, which json.dumps cannot serialise
Rows == {"row_a", "row_b", "row_decimal"}
Datasets == UNION {[1..n -> Rows] : n \in 0..MaxRows}

\* an event is a dictionary; each of the three parameters may be missing
EmptyEvent == [k \in {} |-> k]
EventField(k, v) == IF v = "absent" THEN EmptyEvent ELSE (k :> v)
ToBool(s) == s = "true"
Events ==
  { EventField("analysis_type", a) @@ EventField("model", m)
      @@ (IF s = "absent" THEN EmptyEvent ELSE ("save_to_s3" :> ToBool(s)))
    : a \in AnalysisTypes \cup {"absent"},
      m \in ModelChoices \cup {"absent"},
      s \in {"absent", "true", "false"} }

\* a lookup that never finds the key
EventGet_AlwaysDefault(ev, k, default) == default

\* dict.get(key, default)
EventGet(ev, k, default) == IF k \in DOMAIN ev THEN ev[k] ELSE default

\* outcomes of one bedrock.invoke_model call followed by the unwrapping of its body
TransientFaults == {"Timeout", "RateLimited"}
PermanentFaults == {"AuthError", "ContentRejected"}
MalformedShapes == {"NoContent", "EmptyContent", "NoText"}
FinalOutcomes == {"ok"} \cup PermanentFaults \cup MalformedShapes
\* the stub fails `transient` times with `fault`, and from then on gives `final`
Stubs ==
  { [transient |-> n, fault |-> f, final |-> o] :
      n \in 0..MaxTransientFails, f \in TransientFaults, o \in FinalOutcomes }

\* outcome of the k-th call (k = 1, 2, ...) to the stub
StubOutcome(st, k) == IF k <= st.transient THEN st.fault ELSE st.final

\* type(e).__name__ of the exception each fault surfaces as
TypeName(fault) ==
  CASE fault = "ConnectionError" -> "OperationalError"
    [] fault = "QueryError"      -> "ProgrammingError"
    [] fault = "Unserializable"  -> "TypeError"
    [] fault = "Timeout"         -> "ReadTimeoutError"
    [] fault = "RateLimited"     -> "ClientError"
    [] fault = "AuthError"       -> "ClientError"
    [] fault = "ContentRejected" -> "ClientError"
    [] fault = "NoContent"       -> "KeyError"
    [] fault = "EmptyContent"    -> "IndexError"
    [] fault = "NoText"          -> "KeyError"

NoException == [stage |-> "none", fault |-> "none"]
Raise(stage, fault) == [stage |-> stage, fault |-> fault]

\* str(e): the message the exception carries
Message(fault) == fault

(* --------------------------- pure functions --------------------------- *)
\* models.get(model_choice, models['sonnet']) over the models dictionary
Models ==
  [k \in ModelKeys |->
     CASE k = "sonnet"   -> "anthropic.claude-3-sonnet-20240229-v1:0"
       [] k = "haiku"    -> "anthropic.claude-3-haiku-20240307-v1:0"
       [] k = "claude-2" -> "anthropic.claude-v2:1"]

\* the lookup with the wrong default entry
ResolveModel_DefaultHaiku(choice) ==
  IF choice \in DOMAIN Models THEN Models[choice] ELSE Models["haiku"]

ResolveModel(model_choice) ==
  IF model_choice \in DOMAIN Models THEN Models[model_choice] ELSE Models["sonnet"]

\* the fetch function lambda_handler picks for an analysis type
SelectQuery(analysis_type) ==
  IF analysis_type = "at_risk_students" THEN "fetch_at_risk_students"
                                        ELSE "fetch_district_kpis"

\* json.dumps(data, indent=2): raises TypeError on a Decimal, else the rows in order
JsonSerializable(data) == \A i \in 1..Len(data) : data[i] # "row_decimal"
EncodeRow(row) == <<"{", row, "}">>
JsonDumps(data) == [i \in 1..Len(data) |-> EncodeRow(data[i])]

\* the prompts dictionary: each key's skeleton around the same data_json
Prompts(data_json) == [k \in PromptKeys |-> [skeleton |-> k, data_json |-> data_json]]

\* the lookup falling back to another skeleton
create_bedrock_prompt_FallbackQuick(rows, a_type) ==
  LET prompts == Prompts(JsonDumps(rows))
  IN  IF a_type \in DOMAIN prompts THEN prompts[a_type] ELSE prompts["quick_summary"]

create_bedrock_prompt(data, analysis_type) ==
  LET prompts == Prompts(JsonDumps(data))
  IN  IF analysis_type \in DOMAIN prompts THEN prompts[analysis_type]
                                          ELSE prompts["comprehensive"]

\* the text Bedrock answers with: some narrative of that model about that prompt
Narrative(model_id, prompt) == [by |-> model_id, about |-> prompt]

\* strftime('%Y%m%d_%H%M%S'): the clock value cut to whole seconds
Strftime(t) == t \div TicksPerSecond

S3_BUCKET == "school-monitoring-reports"
\* f"reports/{analysis_type}/{timestamp}.json"
ReportKey(analysis_type, t) == [prefix |-> "reports", analysis_type |-> analysis_type, timestamp |-> Strftime(t)]

\* the body of the 'no rows' return of lambda_handler
NoRiskBody ==
  [message  |-> [text |-> "No at-risk students identified"],
   analysis |-> [text |-> "All students are performing well!"]]

\* the except branch answering with the success status
ErrorResponse_Status200(fault) ==
  [statusCode |-> 200,
   body |-> [error |-> Message(fault), error_type |-> TypeName(fault)]]

\* the except branch reporting str(e) in both fields
ErrorResponse_TypeIsMessage(fault) ==
  [statusCode |-> 500,
   body |-> [error |-> Message(fault), error_type |-> Message(fault)]]

\* the except branch answering with an analysis field as well
ErrorResponse_WithAnalysis(fault) ==
  [statusCode |-> 500,
   body |-> [error |-> Message(fault), error_type |-> TypeName(fault), analysis |-> None]]

\* the response of the except branch of lambda_handler
ErrorResponse(fault) ==
  [statusCode |-> 500,
   body |-> [error |-> Message(fault), error_type |-> TypeName(fault)]]

\* the test written for the district-level 'at_risk' type
ShortCircuits_WrongType(a_type, rows) == a_type = "at_risk" /\ Len(rows) = 0

\* the 'if not data' test applied to every analysis type
ShortCircuits_AnyType(a_type, rows) == Len(rows) = 0

\* the 'if analysis_type == ...: data = ...; if not data: return' test of lambda_handler
ShortCircuits(a_type, rows) == a_type = "at_risk_students" /\ Len(rows) = 0

\* retries the Inference Gateway is specified with
RetryBound == 2

\* invoke_bedrock with a retry loop around invoke_model
invoke_bedrock_Retrying(st, calls_before) ==
  LET retries == IF st.transient < RetryBound THEN st.transient ELSE RetryBound
  IN  [calls |-> calls_before + retries + 1,
       outcome |-> StubOutcome(st, calls_before + retries + 1)]

\* invoke_bedrock against the stub, after calls_before earlier calls: the calls made
\* when it returns or raises, and the outcome it ends with.  It calls invoke_model
\* once and has no loop around the call.
invoke_bedrock(st, calls_before) ==
  [calls |-> calls_before + 1, outcome |-> StubOutcome(st, calls_before + 1)]

\* 'except Exception' of lambda_handler: the classes it catches, which is every class
\* the collaborators raise
ExceptionClasses ==
  {"OperationalError", "ProgrammingError", "TypeError", "ReadTimeoutError",
   "ClientError", "KeyError", "IndexError"}
\* an except clause for the Bedrock client's errors only
Catches_ClientErrorOnly(fault) == TypeName(fault) = "ClientError"

\* an except clause for botocore's exceptions only
Catches_BotocoreOnly(fault) == TypeName(fault) \in {"ClientError", "ReadTimeoutError"}

Catches(fault) == TypeName(fault) \in ExceptionClasses

\* save_to_s3 returning the path whether or not put_object went through
save_to_s3_result_AlwaysPath(put_ok, key) == [bucket |-> S3_BUCKET, key |-> key]

\* what save_to_s3 returns: the path after put_object, None from its except branch
save_to_s3_result(put_ok, key) ==
  IF put_ok THEN [bucket |-> S3_BUCKET, key |-> key] ELSE None

\* the final return with the metadata left out
SuccessBody_NoMetadata(t, a_type, meta, path, text) ==
  [timestamp |-> t, analysis_type |-> a_type, metadata |-> None,
   s3_path |-> path, analysis |-> text]

\* the body of the final return of lambda_handler
SuccessBody(t, a_type, meta, path, text) ==
  [timestamp |-> t, analysis_type |-> a_type, metadata |-> meta,
   s3_path |-> path, analysis |-> text]

(* -------------------------------- state ------------------------------- *)
VARIABLES
  pc,             \* where lambda_handler is: start, connect, query, template, invoke,
                  \* metadata, persist, respond, the terminal done / failed, and
                  \* crashed for an exception that left lambda_handler
  event,          \* the event of this invocation
  stub,           \* how the Bedrock runtime behaves in this invocation
  now,            \* the last value datetime.now() returned
  start_time, analysis_type, model_choice, save_s3, model_id,   \* locals of lambda_handler
  data, prompt, analysis, metadata, s3_path,                    \* locals of lambda_handler
  conn_open,      \* database connections open
  queries,        \* cursor.execute calls made
  query_id,       \* the fetch function that was called
  bedrock_calls,  \* bedrock.invoke_model calls made
  s3_puts,        \* s3.put_object calls made
  s3_failures,    \* s3.put_object calls that raised
  bucket,         \* the objects in S3_BUCKET: key and report
  raised,         \* the exception the except branch caught, with the stage that raised it
  response,       \* what lambda_handler returned
  returned,       \* number of responses returned
  student_data    \* student_data of main of the analyzer script

locals == <<start_time, analysis_type, model_choice, save_s3, model_id,
            data, prompt, analysis, metadata, s3_path>>
effects == <<conn_open, queries, query_id, bedrock_calls, s3_puts, s3_failures, bucket>>
vars == <<pc, event, stub, now, locals, effects, raised, response, returned, student_data>>

Terminal == {"done", "failed"}

Init ==
  /\ pc = "start"
  /\ event \in Events
  /\ stub \in Stubs
  /\ now = 0
  /\ start_time = 0
  /\ analysis_type = "" /\ model_choice = "" /\ save_s3 = FALSE /\ model_id = ""
  /\ data = <<>>
  /\ prompt = None /\ analysis = None /\ metadata = None /\ s3_path = None
  /\ conn_open = 0 /\ queries = 0 /\ query_id = "" /\ bedrock_calls = 0 /\ s3_puts = 0
  /\ s3_failures = 0
  /\ bucket = {}
  /\ raised = NoException
  /\ response = None
  /\ returned = 0
  /\ student_data = <<>>

\* the values datetime.now() can return next: time does not go back
ClockReads == {t \in now..(now + 1) : t <= MaxNow}

\* an except branch that logs and falls off its end without a return
Except_NoReturn(stage, fault) ==
  /\ raised' = Raise(stage, fault)
  /\ pc' = "failed"
  /\ UNCHANGED <<response, returned>>

\* an exception raised inside the try block: the except branch returns one 500
\* response for it; an exception the branch does not catch leaves lambda_handler
Except(stage, fault) ==
  /\ raised' = Raise(stage, fault)
  /\ IF Catches(fault)
       THEN /\ response' = ErrorResponse(fault)
            /\ returned' = returned + 1
            /\ pc' = "failed"
       ELSE /\ pc' = "crashed"
            /\ UNCHANGED <<response, returned>>

(* ------------------------------- actions ------------------------------ *)
\* lambda_handler, to the end of the model lookup
Start ==
  /\ pc = "start"
  /\ UNCHANGED student_data
  /\ \E t \in ClockReads : now' = t /\ start_time' = t
  /\ analysis_type' = EventGet(event, "analysis_type", "comprehensive")
  /\ model_choice' = EventGet(event, "model", "sonnet")
  /\ save_s3' = EventGet(event, "save_to_s3", TRUE)
  /\ model_id' = ResolveModel(EventGet(event, "model", "sonnet"))
  /\ pc' = "connect"
  /\ UNCHANGED <<event, stub, data, prompt, analysis, metadata, s3_path,
                 effects, raised, response, returned>>

\* get_db_connection, called first by the fetch function the analysis type selects
GetDbConnection ==
  /\ pc = "connect"
  /\ UNCHANGED student_data
  /\ query_id' = SelectQuery(analysis_type)
  /\ \/ /\ conn_open' = conn_open + 1
        /\ pc' = "query"
        /\ UNCHANGED <<raised, response, returned>>
     \/ /\ Except("fetch", "ConnectionError")
        /\ UNCHANGED conn_open
  /\ UNCHANGED <<event, stub, now, locals, queries, bedrock_calls, s3_puts, s3_failures, bucket>>

\* a failing query answered by running the handler again from the fetch
FetchFails_RetryPipeline ==
  /\ pc = "query"
  /\ UNCHANGED student_data
  /\ queries' = queries + 1
  /\ conn_open' = conn_open - 1
  /\ pc' = "connect"
  /\ UNCHANGED <<event, stub, now, locals, query_id, bedrock_calls, s3_puts, s3_failures, bucket,
                 raised, response, returned>>

\* the try/finally of fetch_district_kpis and fetch_at_risk_students with a failing query
FetchFails ==
  /\ pc = "query"
  /\ UNCHANGED student_data
  /\ queries' = queries + 1
  /\ conn_open' = conn_open - 1
  /\ Except("fetch", "QueryError")
  /\ UNCHANGED <<event, stub, now, locals, query_id, bedrock_calls, s3_puts, s3_failures, bucket>>

\* the same with rows coming back, and the 'if not data' return of the at-risk branch
FetchReturns ==
  /\ pc = "query"
  /\ UNCHANGED student_data
  /\ queries' = queries + 1
  /\ conn_open' = conn_open - 1
  /\ \E rows \in Datasets :
       /\ data' = rows
       /\ IF ShortCircuits(analysis_type, rows)
            THEN /\ response' = [statusCode |-> 200, body |-> NoRiskBody]
                 /\ returned' = returned + 1
                 /\ pc' = "done"
            ELSE /\ pc' = "template"
                 /\ UNCHANGED <<response, returned>>
  /\ UNCHANGED <<event, stub, now, start_time, analysis_type, model_choice, save_s3, model_id,
                 prompt, analysis, metadata, s3_path,
                 query_id, bedrock_calls, s3_puts, s3_failures, bucket, raised>>

\* prompt = create_bedrock_prompt(data, analysis_type)
CreatePrompt ==
  /\ pc = "template"
  /\ UNCHANGED student_data
  /\ IF JsonSerializable(data)
       THEN /\ prompt' = create_bedrock_prompt(data, analysis_type)
            /\ pc' = "invoke"
            /\ UNCHANGED <<raised, response, returned>>
       ELSE /\ Except("template", "Unserializable")
            /\ UNCHANGED prompt
  /\ UNCHANGED <<event, stub, now, start_time, analysis_type, model_choice, save_s3, model_id,
                 data, analysis, metadata, s3_path, effects>>

\* the Bedrock call placed before the prompt is built
InvokeBedrock_BeforePrompt ==
  /\ pc = "template"
  /\ UNCHANGED student_data
  /\ LET r == invoke_bedrock(stub, bedrock_calls)
     IN  /\ bedrock_calls' = r.calls
         /\ IF r.outcome = "ok"
              THEN /\ analysis' = Narrative(model_id, prompt)
                   /\ pc' = "metadata"
                   /\ UNCHANGED <<raised, response, returned>>
              ELSE /\ Except("invoke", r.outcome)
                   /\ UNCHANGED analysis
  /\ UNCHANGED <<event, stub, now, start_time, analysis_type, model_choice, save_s3, model_id,
                 data, prompt, metadata, s3_path,
                 conn_open, queries, query_id, s3_puts, s3_failures, bucket>>

\* analysis = invoke_bedrock(prompt, model_id): one invoke_model call, then the unwrapping
InvokeBedrock ==
  /\ pc = "invoke"
  /\ UNCHANGED student_data
  /\ LET r == invoke_bedrock(stub, bedrock_calls)
     IN  /\ bedrock_calls' = r.calls
         /\ IF r.outcome = "ok"
              THEN /\ analysis' = Narrative(model_id, prompt)
                   /\ pc' = "metadata"
                   /\ UNCHANGED <<raised, response, returned>>
              ELSE /\ Except("invoke", r.outcome)
                   /\ UNCHANGED analysis
  /\ UNCHANGED <<event, stub, now, start_time, analysis_type, model_choice, save_s3, model_id,
                 data, prompt, metadata, s3_path,
                 conn_open, queries, query_id, s3_puts, s3_failures, bucket>>

\* execution_time and the metadata dictionary
PrepareMetadata ==
  /\ pc = "metadata"
  /\ UNCHANGED student_data
  /\ \E t \in ClockReads :
       /\ now' = t
       /\ metadata' = [model |-> model_choice, model_id |-> model_id,
                       records_analyzed |-> Len(data),
                       execution_time_seconds |-> t - start_time]
  /\ pc' = "persist"
  /\ UNCHANGED <<event, stub, start_time, analysis_type, model_choice, save_s3, model_id,
                 data, prompt, analysis, s3_path, effects, raised, response, returned>>

\* 'if save_s3' false: s3_path stays None
SkipS3 ==
  /\ pc = "persist"
  /\ UNCHANGED student_data
  /\ ~save_s3
  /\ s3_path' = None
  /\ pc' = "respond"
  /\ UNCHANGED <<event, stub, now, start_time, analysis_type, model_choice, save_s3, model_id,
                 data, prompt, analysis, metadata, effects, raised, response, returned>>

\* s3_path = save_to_s3(analysis, analysis_type, metadata)
SaveToS3 ==
  /\ pc = "persist"
  /\ UNCHANGED student_data
  /\ save_s3
  /\ s3_puts' = s3_puts + 1
  /\ \E t1 \in ClockReads : \E t2 \in {t \in t1..(t1 + 1) : t <= MaxNow} :
       LET key == ReportKey(analysis_type, t1)
           report == [timestamp |-> t2, analysis_type |-> analysis_type,
                      metadata |-> metadata, analysis |-> analysis]
       IN  /\ now' = t2
           /\ \E put_ok \in BOOLEAN :
                /\ s3_path' = save_to_s3_result(put_ok, key)
                /\ s3_failures' = IF put_ok THEN s3_failures ELSE s3_failures + 1
                /\ bucket' = IF put_ok
                               THEN {o \in bucket : o.key # key}
                                      \cup {[key |-> key, report |-> report]}
                               ELSE bucket
  /\ pc' = "respond"
  /\ UNCHANGED <<event, stub, start_time, analysis_type, model_choice, save_s3, model_id,
                 data, prompt, analysis, metadata,
                 conn_open, queries, query_id, bedrock_calls, raised, response, returned>>

\* the final return of the try block
Respond ==
  /\ pc = "respond"
  /\ UNCHANGED student_data
  /\ \E t \in ClockReads :
       /\ now' = t
       /\ response' = [statusCode |-> 200,
                       body |-> SuccessBody(t, analysis_type, metadata, s3_path, analysis)]
  /\ returned' = returned + 1
  /\ pc' = "done"
  /\ UNCHANGED <<event, stub, locals, effects, raised>>

Next ==
  \/ Start
  \/ GetDbConnection
  \/ FetchFails
  \/ FetchReturns
  \/ CreatePrompt
  \/ InvokeBedrock
  \/ PrepareMetadata
  \/ SkipS3
  \/ SaveToS3
  \/ Respond

Spec == Init /\ [][Next]_vars

\* lambda_handler runs to its return: no step of it waits for anything
FairSpec == Spec /\ WF_vars(Next)

TypeOK ==
  /\ pc \in {"start", "connect", "query", "template", "invoke", "metadata",
             "persist", "respond", "done", "failed", "crashed"}
  /\ conn_open \in 0..1
  /\ returned \in 0..1

(* ------------------------------- claims ------------------------------- *)
\* the fetch function returned its rows
FetchReturned == queries = 1 /\ raised.stage # "fetch"
Returned200 == pc = "done" /\ returned = 1 /\ response.statusCode = 200
Returned500 == pc = "failed" /\ returned = 1 /\ response.statusCode = 500

\* C1: an 'at_risk_students' invocation whose query returns no rows ends with a
\* 200 response whose analysis is the fixed no-risk message, and has called neither
\* Bedrock nor S3.
C1_EmptyAtRiskShortCircuits ==
  (analysis_type = "at_risk_students" /\ FetchReturned /\ Len(data) = 0) =>
    /\ Returned200
    /\ response.body.analysis = [text |-> "All students are performing well!"]
    /\ bedrock_calls = 0
    /\ s3_puts = 0

C1_Witness ==
  /\ analysis_type = "at_risk_students" /\ FetchReturned /\ Len(data) = 0
  /\ pc = "done"

C4_SinkFailureNonFatal ==
  (s3_failures > 0) =>
    /\ pc \in {"respond", "done"}
    /\ s3_path = None
    /\ (pc = "done") =>
         /\ Returned200
         /\ response.body.analysis = Narrative(model_id, prompt)
         /\ response.body.analysis # None
         /\ response.body.s3_path = None

C4_Witness == s3_failures = 1 /\ pc = "done" /\ bucket = {}

\* C5: whichever of the database, the prompt construction, Bedrock and S3 fails, no
\* exception leaves lambda_handler: a raised exception ends in one 500 response with
\* error and error_type, and every finished invocation has returned a response.
C5_NoUnhandledFault ==
  /\ pc # "crashed"
  /\ (raised # NoException) =>
       /\ Returned500
       /\ DOMAIN response.body = {"error", "error_type"}
  /\ (pc \in Terminal) => (returned = 1 /\ response.statusCode \in {200, 500})
  /\ (pc \notin Terminal) => (returned = 0 /\ ENABLED Next)

C5_Witness == pc = "failed" /\ raised.stage = "template" /\ returned = 1

NothingAfterReturn ==
  (pc \in Terminal) =>
     /\ pc' = pc
     /\ UNCHANGED <<queries, bedrock_calls, s3_puts, returned, response>>

\* C7: every invocation reaches done or failed, has then returned exactly one
\* response, and makes no query, Bedrock call or S3 write afterwards.
C7_OneTerminalOneEnvelope ==
  /\ <>(pc \in Terminal)
  /\ [](returned <= 1 /\ (pc \in Terminal <=> returned = 1))
  /\ [](pc = "done" => response.statusCode = 200)
  /\ [](pc = "failed" => response.statusCode = 500)
  /\ [][NothingAfterReturn]_vars

C7_Witness == pc = "done" /\ returned = 1 /\ queries = 1 /\ bedrock_calls = 1 /\ s3_puts = 1

\* C8: when the connection or the query fails, the invocation returns a 500
\* response carrying the database error, and has called neither Bedrock nor S3.
C8_FetchFailureStops ==
  (raised.stage = "fetch") =>
    /\ Returned500
    /\ response.body.error \in {"ConnectionError", "QueryError"}
    /\ response.body.error_type \in {"OperationalError", "ProgrammingError"}
    /\ bedrock_calls = 0
    /\ s3_puts = 0

C8_Witness == raised = Raise("fetch", "QueryError") /\ pc = "failed" /\ queries = 1

\* C9: 'sonnet', 'haiku' and 'claude-2' resolve to their own model ids, every other
\* model value to the id of 'sonnet', and an invocation fails only on an exception
\* of the fetch, the prompt construction or the Bedrock call.
C9_ModelResolution ==
  (pc # "start") =>
    /\ (model_choice = "sonnet") => (model_id = "anthropic.claude-3-sonnet-20240229-v1:0")
    /\ (model_choice = "haiku") => (model_id = "anthropic.claude-3-haiku-20240307-v1:0")
    /\ (model_choice = "claude-2") => (model_id = "anthropic.claude-v2:1")
    /\ (model_choice \notin {"sonnet", "haiku", "claude-2"}) =>
          (model_id = "anthropic.claude-3-sonnet-20240229-v1:0")
    /\ (pc \in {"failed", "crashed"}) => (raised.stage \in {"fetch", "template", "invoke"})

C9_Witness == model_choice = "opus" /\ pc = "done" /\ bedrock_calls = 1

\* C10: for an analysis_type that is no key of the prompts dictionary the district
\* query runs and the prompt is the one create_bedrock_prompt builds for
\* 'comprehensive' from the same rows; the invocation fails only on an exception of
\* the fetch, the prompt construction or the Bedrock call.
C10_UnknownTypeFallsBack ==
  (pc # "start" /\ analysis_type \notin PromptKeys) =>
    /\ (query_id # "") => (query_id = "fetch_district_kpis")
    /\ (prompt # None) =>
          /\ prompt = create_bedrock_prompt(data, "comprehensive")
          /\ prompt.skeleton = "comprehensive"
    /\ (pc \in {"failed", "crashed"}) => (raised.stage \in {"fetch", "template", "invoke"})

C10_Witness ==
  /\ analysis_type = "weekly_digest" /\ Len(data) > 0
  /\ prompt # None /\ pc = "done"

\* C11 as stated: in every 200 response the metadata record count is the number of
\* rows the query returned: n for the district query, 0 in the response to an
\* at-risk query without rows.
C11_RecordCountInEveryDone ==
  (pc = "done") =>
    /\ "metadata" \in DOMAIN response.body
    /\ response.body.metadata.records_analyzed = Len(data)

\* the fields invoke_lambda of the integration test reads from the body of a response
invoke_lambda_reads == {"timestamp", "analysis_type", "metadata", "analysis"}
invoke_lambda_reads_metadata == {"records_analyzed", "model"}

\* C12 as stated: every body lambda_handler returns, from the final return, the
\* 'no rows' return and the except branch alike, has the fields timestamp,
\* analysis_type, metadata (with model and record count) and analysis, which the
\* integration test reads from each response.
C12_SameFieldsOnEveryPath ==
  (returned = 1) =>
    /\ invoke_lambda_reads \subseteq DOMAIN response.body
    /\ invoke_lambda_reads_metadata \subseteq DOMAIN response.body.metadata

\* C15: Bedrock is called only after the fetch returned its rows and the prompt was
\* built from them, and S3 is written only after Bedrock returned the narrative.
C15_StagesInOrder ==
  /\ (bedrock_calls > 0) =>
       /\ FetchReturned
       /\ conn_open = 0
       /\ prompt # None
       /\ Len(prompt.data_json) = Len(data)
       /\ \A i \in 1..Len(data) : prompt.data_json[i] = <<"{", data[i], "}">>
  /\ (s3_puts > 0) =>
       /\ bedrock_calls = 1
       /\ raised = NoException
       /\ analysis = [by |-> model_id, about |-> prompt]
       /\ metadata # None

C15_Witness == pc = "done" /\ s3_puts = 1 /\ bedrock_calls = 1 /\ Len(data) = MaxRows

\* C16: in one invocation at most one connection is opened, at most one query is
\* executed and at most one S3 write is made, whatever stage fails.
C16_NoPipelineRetry ==
  /\ queries <= 1
  /\ s3_puts <= 1
  /\ (raised # NoException) => (pc \in {"failed", "crashed"})

C16_Witness == pc = "failed" /\ raised.stage = "invoke" /\ queries = 1 /\ s3_puts = 0

\* C17: S3 is written only when the event's save_to_s3 is true or missing and Bedrock
\* returned the narrative; with save_to_s3 false S3 is never written, and the final
\* return has a null s3_path and the narrative.
C17_PersistOnlyWhenAsked ==
  LET persist == IF "save_to_s3" \in DOMAIN event THEN event["save_to_s3"] ELSE TRUE
  IN  /\ (s3_puts > 0) => (persist /\ analysis # None /\ bedrock_calls = 1)
      /\ (~persist) => (s3_puts = 0 /\ bucket = {} /\ s3_path = None)
      /\ (~persist /\ pc = "done" /\ bedrock_calls = 1) =>
            /\ response.body.s3_path = None
            /\ response.body.analysis = [by |-> model_id, about |-> prompt]

C17_Witness ==
  /\ "save_to_s3" \in DOMAIN event /\ ~event["save_to_s3"]
  /\ pc = "done" /\ bedrock_calls = 1 /\ s3_puts = 0

\* C18: for an analysis type other than 'at_risk_students' a query that returns no
\* rows neither ends the invocation nor fails it: the prompt is built from the empty
\* list, Bedrock is called once, and the final return reports 0 records.
C18_EmptyAggregateProceeds ==
  (pc # "start" /\ analysis_type # "at_risk_students" /\ FetchReturned /\ Len(data) = 0) =>
    /\ pc # "template" => (prompt # None /\ prompt.data_json = <<>>)
    /\ (pc \in Terminal) => bedrock_calls = 1
    /\ (pc = "failed") => raised.stage = "invoke"
    /\ (pc = "done") =>
         /\ "metadata" \in DOMAIN response.body
         /\ response.body.metadata.records_analyzed = 0

C18_Witness ==
  /\ analysis_type = "quick_summary" /\ FetchReturned /\ Len(data) = 0
  /\ pc = "done" /\ bedrock_calls = 1

StoredReports == {o.report : o \in {x \in bucket : x.key = response.body.s3_path.key}}

\* C20 as stated: the report written to S3 has the timestamp, analysis_type,
\* metadata and analysis of the body returned in the same invocation.
C20_ReportEqualsEnvelope ==
  (pc = "done" /\ bedrock_calls = 1 /\ response.body.s3_path # None) =>
    \A r \in StoredReports :
      /\ r.timestamp = response.body.timestamp
      /\ r.analysis_type = response.body.analysis_type
      /\ r.metadata = response.body.metadata
      /\ r.analysis = response.body.analysis

\* C20 amended: the report written to S3 has the analysis_type, metadata and
\* analysis of the body returned in the same invocation; its timestamp is read
\* from the clock earlier and is not later than the body's.
C20_ReportMirrorsEnvelope ==
  (pc = "done" /\ bedrock_calls = 1 /\ response.body.s3_path # None) =>
    /\ StoredReports # {}
    /\ \A r \in StoredReports :
         /\ r.timestamp <= response.body.timestamp
         /\ r.analysis_type = response.body.analysis_type
         /\ r.metadata = response.body.metadata
         /\ r.analysis = response.body.analysis

C20_Witness ==
  /\ pc = "done" /\ bedrock_calls = 1 /\ response.body.s3_path # None
  /\ \E r \in StoredReports : r.timestamp < response.body.timestamp

(* ------------------- the two example scripts and their connections ------------------- *)
\* where a script has ended: fetch_kpis_from_views returned or raised, main of the
\* analyzer script left its try/except/finally
ScriptTerminal == {"views_returned", "views_raised", "main_exit"}

\* a Bedrock stub for the runs that never call Bedrock
IdleStub == [transient |-> 0, fault |-> "Timeout", final |-> "ok"]

ScriptInit ==
  /\ pc \in {"views_connect", "main_connect"}
  /\ event = EmptyEvent
  /\ stub = IdleStub
  /\ now = 0
  /\ start_time = 0
  /\ analysis_type = "" /\ model_choice = "" /\ save_s3 = FALSE /\ model_id = ""
  /\ data = <<>>
  /\ prompt = None /\ analysis = None /\ metadata = None /\ s3_path = None
  /\ conn_open = 0 /\ queries = 0 /\ query_id = "" /\ bedrock_calls = 0 /\ s3_puts = 0
  /\ s3_failures = 0
  /\ bucket = {}
  /\ raised = NoException
  /\ response = None
  /\ returned = 0
  /\ student_data = <<>>

script_frame == <<event, stub, now, start_time, analysis_type, model_choice, save_s3, model_id,
                  prompt, analysis, metadata, s3_path, bedrock_calls, s3_puts, s3_failures,
                  bucket, response, returned>>

\* fetch_kpis_from_views: conn = pymysql.connect(...)
ViewsConnect ==
  /\ pc = "views_connect"
  /\ \/ /\ conn_open' = conn_open + 1
        /\ pc' = "views_query"
        /\ UNCHANGED raised
     \/ /\ raised' = Raise("fetch", "ConnectionError")
        /\ pc' = "views_raised"
        /\ UNCHANGED conn_open
  /\ UNCHANGED <<script_frame, data, student_data, queries, query_id>>

\* fetch_kpis_from_views: df = pd.read_sql(query, conn) returns, then conn.close()
ViewsReadSqlReturns ==
  /\ pc = "views_query"
  /\ queries' = queries + 1
  /\ query_id' = "fetch_kpis_from_views"
  /\ \E rows \in Datasets : data' = rows
  /\ conn_open' = conn_open - 1
  /\ pc' = "views_returned"
  /\ UNCHANGED <<script_frame, student_data, raised>>

\* fetch_kpis_from_views: pd.read_sql raises; there is no try around it, so
\* conn.close() on the next line is not reached
ViewsReadSqlRaises ==
  /\ pc = "views_query"
  /\ queries' = queries + 1
  /\ query_id' = "fetch_kpis_from_views"
  /\ raised' = Raise("fetch", "QueryError")
  /\ pc' = "views_raised"
  /\ UNCHANGED <<script_frame, data, student_data, conn_open>>

\* main of the analyzer script: analyzer.connect_db() inside the try
MainConnect ==
  /\ pc = "main_connect"
  /\ \/ /\ conn_open' = conn_open + 1
        /\ pc' = "main_district"
        /\ UNCHANGED raised
     \/ /\ raised' = Raise("fetch", "ConnectionError")
        /\ pc' = "main_finally"
        /\ UNCHANGED conn_open
  /\ UNCHANGED <<script_frame, data, student_data, queries, query_id>>

\* main: district_data = analyzer.fetch_district_kpis()
MainFetchDistricts ==
  /\ pc = "main_district"
  /\ queries' = queries + 1
  /\ query_id' = "fetch_district_kpis"
  /\ \/ /\ \E rows \in Datasets : data' = rows
        /\ pc' = "main_students"
        /\ UNCHANGED raised
     \/ /\ raised' = Raise("fetch", "QueryError")
        /\ pc' = "main_finally"
        /\ UNCHANGED data
  /\ UNCHANGED <<script_frame, student_data, conn_open>>

\* main: student_data = analyzer.fetch_at_risk_students()
MainFetchStudents ==
  /\ pc = "main_students"
  /\ queries' = queries + 1
  /\ query_id' = "fetch_at_risk_students"
  /\ \/ /\ \E rows \in Datasets : student_data' = rows
        /\ UNCHANGED raised
     \/ /\ raised' = Raise("fetch", "QueryError")
        /\ UNCHANGED student_data
  /\ pc' = "main_finally"
  /\ UNCHANGED <<script_frame, data, conn_open>>

\* main: the finally clause, analyzer.close(), which closes self.conn if it is set
MainFinally ==
  /\ pc = "main_finally"
  /\ conn_open' = 0
  /\ pc' = "main_exit"
  /\ UNCHANGED <<script_frame, data, student_data, queries, query_id, raised>>

ScriptNext ==
  \/ ViewsConnect
  \/ ViewsReadSqlReturns
  \/ ViewsReadSqlRaises
  \/ MainConnect
  \/ MainFetchDistricts
  \/ MainFetchStudents
  \/ MainFinally

ScriptSpec == ScriptInit /\ [][ScriptNext]_vars

\* C13 as stated: when an invocation or a script run has ended, by a return or by
\* an exception, every database connection it opened has been closed.
C13_ConnectionsReleased ==
  (pc \in Terminal \cup {"crashed"} \cup ScriptTerminal) => conn_open = 0

(* ------------------------- a second, concurrent invocation ------------------------- *)
\* the report another invocation of lambda_handler stores for analysis type a_type
\* when its save_to_s3 reads the clock at t
PeerReport(a_type, t) ==
  [timestamp |-> t, analysis_type |-> a_type,
   metadata |-> [model |-> "haiku", model_id |-> Models["haiku"],
                 records_analyzed |-> 1, execution_time_seconds |-> 0],
   analysis |-> [by |-> Models["haiku"], about |-> "the prompt of the other invocation"]]

\* save_to_s3 of one other invocation that runs at the same time: its put_object
\* goes through under the key of its analysis type and the current second
PeerSaveToS3 ==
  /\ pc \notin {"start", "crashed"}
  /\ \E a_type \in PromptKeys :
       LET key == ReportKey(a_type, now)
           report == PeerReport(a_type, now)
       IN  /\ \A o \in bucket : o.report.analysis # report.analysis
           /\ bucket' = {o \in bucket : o.key # key} \cup {[key |-> key, report |-> report]}
  /\ UNCHANGED <<pc, event, stub, now, locals, conn_open, queries, query_id, bedrock_calls,
                 s3_puts, s3_failures, raised, response, returned, student_data>>

\* the invocations in which Bedrock answers, with the model left to its default
ConcurrentInit ==
  /\ Init
  /\ stub = IdleStub
  /\ "model" \notin DOMAIN event

ConcurrentNext == Next \/ PeerSaveToS3

ConcurrentSpec == ConcurrentInit /\ [][ConcurrentNext]_vars

\* C14 as stated: two invocations that persist a report write under different keys,
\* so a report that is in the bucket is never replaced by another invocation's.
C14_NoReportOverwritten == [][\A o \in bucket : o \in bucket']_vars

====
